---------------------------- MODULE Spec2Model ----------------------------
(***************************************************************************)
(* The filter-and-score pipeline of the Remotive job finder (src/main.py). *)
(*                                                                         *)
(* Python values are tagged records [t, v]: None is [t |-> "none"], a str  *)
(* is [t |-> "str"] with v the sequence of its Unicode code points, any    *)
(* other JSON value is [t |-> "num"] with v the text str() gives it.  A    *)
(* job is a function from the keys it carries to such values, so           *)
(* job.get(key, default) is modelled with its default.                     *)
(* A call that can raise yields an outcome: Return(value) or Raise(name).  *)
(* The scores are IEEE-754 doubles [sign, man, exp] of value               *)
(* sign * man * 2^exp, rounded to nearest-even as the interpreter rounds.  *)
(* A datetime is its proleptic Gregorian day number, the second of the day *)
(* and the microsecond, with the UTC offset it was written with.           *)
(***************************************************************************)
EXTENDS Integers, Sequences, FiniteSets, TLC

VARIABLES
    jobs_list,      \* the listings pulled from the API (main.py:182)
    user_keywords,  \* the keyword list in force (main.py:22-29)
    now,            \* the wall clock read by datetime.now (main.py:77)
    pc,             \* position of the script: "loop", "score", "done",
                    \* "aborted" after an uncaught exception
    idx,            \* 1-based position of `job` in the for loop (main.py:192)
    filtered_jobs,  \* the output list (main.py:190, 219, 237)
    origin,         \* history: origin[k] is the input position of filtered_jobs[k]
    admitted,       \* history: input positions passes_filters returned True for
    unit            \* the last direct call of a helper function, with its outcome

vars == <<jobs_list, user_keywords, now, pc, idx, filtered_jobs, origin,
          admitted, unit>>

---------------------------------------------------------------------------
(* Python values and outcomes of calls *)

None == [t |-> "none", v |-> <<>>]

Str(s) == [t |-> "str", v |-> s]

Num(s) == [t |-> "num", v |-> s]

Return(value) == [raised |-> "none", value |-> value]

Raise(exception) == [raised |-> exception]

\* job.get(key, default)
Get(job, key, default) == IF key \in DOMAIN job THEN job[key] ELSE default

\* str(x) as an f-string renders it: None prints as "None"
Format(x) == IF x.t = "none" THEN <<78, 111, 110, 101>> ELSE x.v

---------------------------------------------------------------------------
(* str.lower() and str.strip() over Unicode 14.0, the tables of Python 3.11 *)

\* <<first, last, step, delta>>: every step-th code point from first to last
\* has the lowercase code point delta further on
LowerRanges ==
    {<<65, 90, 1, 32>>, <<192, 214, 1, 32>>, <<216, 222, 1, 32>>,
     <<256, 302, 2, 1>>, <<306, 310, 2, 1>>, <<313, 327, 2, 1>>,
     <<330, 374, 2, 1>>, <<376, 376, 1, -121>>, <<377, 381, 2, 1>>,
     <<385, 385, 1, 210>>, <<386, 388, 2, 1>>, <<390, 390, 1, 206>>,
     <<391, 391, 1, 1>>, <<393, 394, 1, 205>>, <<395, 395, 1, 1>>,
     <<398, 398, 1, 79>>, <<399, 399, 1, 202>>, <<400, 400, 1, 203>>,
     <<401, 401, 1, 1>>, <<403, 403, 1, 205>>, <<404, 404, 1, 207>>,
     <<406, 406, 1, 211>>, <<407, 407, 1, 209>>, <<408, 408, 1, 1>>,
     <<412, 412, 1, 211>>, <<413, 413, 1, 213>>, <<415, 415, 1, 214>>,
     <<416, 420, 2, 1>>, <<422, 422, 1, 218>>, <<423, 423, 1, 1>>,
     <<425, 425, 1, 218>>, <<428, 428, 1, 1>>, <<430, 430, 1, 218>>,
     <<431, 431, 1, 1>>, <<433, 434, 1, 217>>, <<435, 437, 2, 1>>,
     <<439, 439, 1, 219>>, <<440, 440, 1, 1>>, <<444, 444, 1, 1>>,
     <<452, 452, 1, 2>>, <<453, 453, 1, 1>>, <<455, 455, 1, 2>>,
     <<456, 456, 1, 1>>, <<458, 458, 1, 2>>, <<459, 475, 2, 1>>,
     <<478, 494, 2, 1>>, <<497, 497, 1, 2>>, <<498, 500, 2, 1>>,
     <<502, 502, 1, -97>>, <<503, 503, 1, -56>>, <<504, 542, 2, 1>>,
     <<544, 544, 1, -130>>, <<546, 562, 2, 1>>, <<570, 570, 1, 10795>>,
     <<571, 571, 1, 1>>, <<573, 573, 1, -163>>, <<574, 574, 1, 10792>>,
     <<577, 577, 1, 1>>, <<579, 579, 1, -195>>, <<580, 580, 1, 69>>,
     <<581, 581, 1, 71>>, <<582, 590, 2, 1>>, <<880, 882, 2, 1>>,
     <<886, 886, 1, 1>>, <<895, 895, 1, 116>>, <<902, 902, 1, 38>>,
     <<904, 906, 1, 37>>, <<908, 908, 1, 64>>, <<910, 911, 1, 63>>,
     <<913, 929, 1, 32>>, <<931, 939, 1, 32>>, <<975, 975, 1, 8>>,
     <<984, 1006, 2, 1>>, <<1012, 1012, 1, -60>>, <<1015, 1015, 1, 1>>,
     <<1017, 1017, 1, -7>>, <<1018, 1018, 1, 1>>, <<1021, 1023, 1, -130>>,
     <<1024, 1039, 1, 80>>, <<1040, 1071, 1, 32>>, <<1120, 1152, 2, 1>>,
     <<1162, 1214, 2, 1>>, <<1216, 1216, 1, 15>>, <<1217, 1229, 2, 1>>,
     <<1232, 1326, 2, 1>>, <<1329, 1366, 1, 48>>, <<4256, 4293, 1, 7264>>,
     <<4295, 4295, 1, 7264>>, <<4301, 4301, 1, 7264>>,
     <<5024, 5103, 1, 38864>>, <<5104, 5109, 1, 8>>,
     <<7312, 7354, 1, -3008>>, <<7357, 7359, 1, -3008>>,
     <<7680, 7828, 2, 1>>, <<7838, 7838, 1, -7615>>, <<7840, 7934, 2, 1>>,
     <<7944, 7951, 1, -8>>, <<7960, 7965, 1, -8>>, <<7976, 7983, 1, -8>>,
     <<7992, 7999, 1, -8>>, <<8008, 8013, 1, -8>>, <<8025, 8031, 2, -8>>,
     <<8040, 8047, 1, -8>>, <<8072, 8079, 1, -8>>, <<8088, 8095, 1, -8>>,
     <<8104, 8111, 1, -8>>, <<8120, 8121, 1, -8>>, <<8122, 8123, 1, -74>>,
     <<8124, 8124, 1, -9>>, <<8136, 8139, 1, -86>>, <<8140, 8140, 1, -9>>,
     <<8152, 8153, 1, -8>>, <<8154, 8155, 1, -100>>, <<8168, 8169, 1, -8>>,
     <<8170, 8171, 1, -112>>, <<8172, 8172, 1, -7>>, <<8184, 8185, 1, -128>>,
     <<8186, 8187, 1, -126>>, <<8188, 8188, 1, -9>>,
     <<8486, 8486, 1, -7517>>, <<8490, 8490, 1, -8383>>,
     <<8491, 8491, 1, -8262>>, <<8498, 8498, 1, 28>>, <<8544, 8559, 1, 16>>,
     <<8579, 8579, 1, 1>>, <<9398, 9423, 1, 26>>, <<11264, 11311, 1, 48>>,
     <<11360, 11360, 1, 1>>, <<11362, 11362, 1, -10743>>,
     <<11363, 11363, 1, -3814>>, <<11364, 11364, 1, -10727>>,
     <<11367, 11371, 2, 1>>, <<11373, 11373, 1, -10780>>,
     <<11374, 11374, 1, -10749>>, <<11375, 11375, 1, -10783>>,
     <<11376, 11376, 1, -10782>>, <<11378, 11378, 1, 1>>,
     <<11381, 11381, 1, 1>>, <<11390, 11391, 1, -10815>>,
     <<11392, 11490, 2, 1>>, <<11499, 11501, 2, 1>>, <<11506, 11506, 1, 1>>,
     <<42560, 42604, 2, 1>>, <<42624, 42650, 2, 1>>, <<42786, 42798, 2, 1>>,
     <<42802, 42862, 2, 1>>, <<42873, 42875, 2, 1>>,
     <<42877, 42877, 1, -35332>>, <<42878, 42886, 2, 1>>,
     <<42891, 42891, 1, 1>>, <<42893, 42893, 1, -42280>>,
     <<42896, 42898, 2, 1>>, <<42902, 42920, 2, 1>>,
     <<42922, 42922, 1, -42308>>, <<42923, 42923, 1, -42319>>,
     <<42924, 42924, 1, -42315>>, <<42925, 42925, 1, -42305>>,
     <<42926, 42926, 1, -42308>>, <<42928, 42928, 1, -42258>>,
     <<42929, 42929, 1, -42282>>, <<42930, 42930, 1, -42261>>,
     <<42931, 42931, 1, 928>>, <<42932, 42946, 2, 1>>,
     <<42948, 42948, 1, -48>>, <<42949, 42949, 1, -42307>>,
     <<42950, 42950, 1, -35384>>, <<42951, 42953, 2, 1>>,
     <<42960, 42960, 1, 1>>, <<42966, 42968, 2, 1>>, <<42997, 42997, 1, 1>>,
     <<65313, 65338, 1, 32>>, <<66560, 66599, 1, 40>>,
     <<66736, 66771, 1, 40>>, <<66928, 66938, 1, 39>>,
     <<66940, 66954, 1, 39>>, <<66956, 66962, 1, 39>>,
     <<66964, 66965, 1, 39>>, <<68736, 68786, 1, 64>>,
     <<71840, 71871, 1, 32>>, <<93760, 93791, 1, 32>>,
     <<125184, 125217, 1, 34>>}

\* <<first, last>>: the code points with the property Case_Ignorable
CaseIgnorableRanges ==
    {<<39, 39>>, <<46, 46>>, <<58, 58>>, <<94, 94>>, <<96, 96>>,
     <<168, 168>>, <<173, 173>>, <<175, 175>>, <<180, 180>>, <<183, 184>>,
     <<688, 879>>, <<884, 885>>, <<890, 890>>, <<900, 901>>, <<903, 903>>,
     <<1155, 1161>>, <<1369, 1369>>, <<1375, 1375>>, <<1425, 1469>>,
     <<1471, 1471>>, <<1473, 1474>>, <<1476, 1477>>, <<1479, 1479>>,
     <<1524, 1524>>, <<1536, 1541>>, <<1552, 1562>>, <<1564, 1564>>,
     <<1600, 1600>>, <<1611, 1631>>, <<1648, 1648>>, <<1750, 1757>>,
     <<1759, 1768>>, <<1770, 1773>>, <<1807, 1807>>, <<1809, 1809>>,
     <<1840, 1866>>, <<1958, 1968>>, <<2027, 2037>>, <<2042, 2042>>,
     <<2045, 2045>>, <<2070, 2093>>, <<2137, 2139>>, <<2184, 2184>>,
     <<2192, 2193>>, <<2200, 2207>>, <<2249, 2306>>, <<2362, 2362>>,
     <<2364, 2364>>, <<2369, 2376>>, <<2381, 2381>>, <<2385, 2391>>,
     <<2402, 2403>>, <<2417, 2417>>, <<2433, 2433>>, <<2492, 2492>>,
     <<2497, 2500>>, <<2509, 2509>>, <<2530, 2531>>, <<2558, 2558>>,
     <<2561, 2562>>, <<2620, 2620>>, <<2625, 2626>>, <<2631, 2632>>,
     <<2635, 2637>>, <<2641, 2641>>, <<2672, 2673>>, <<2677, 2677>>,
     <<2689, 2690>>, <<2748, 2748>>, <<2753, 2757>>, <<2759, 2760>>,
     <<2765, 2765>>, <<2786, 2787>>, <<2810, 2815>>, <<2817, 2817>>,
     <<2876, 2876>>, <<2879, 2879>>, <<2881, 2884>>, <<2893, 2893>>,
     <<2901, 2902>>, <<2914, 2915>>, <<2946, 2946>>, <<3008, 3008>>,
     <<3021, 3021>>, <<3072, 3072>>, <<3076, 3076>>, <<3132, 3132>>,
     <<3134, 3136>>, <<3142, 3144>>, <<3146, 3149>>, <<3157, 3158>>,
     <<3170, 3171>>, <<3201, 3201>>, <<3260, 3260>>, <<3263, 3263>>,
     <<3270, 3270>>, <<3276, 3277>>, <<3298, 3299>>, <<3328, 3329>>,
     <<3387, 3388>>, <<3393, 3396>>, <<3405, 3405>>, <<3426, 3427>>,
     <<3457, 3457>>, <<3530, 3530>>, <<3538, 3540>>, <<3542, 3542>>,
     <<3633, 3633>>, <<3636, 3642>>, <<3654, 3662>>, <<3761, 3761>>,
     <<3764, 3772>>, <<3782, 3782>>, <<3784, 3789>>, <<3864, 3865>>,
     <<3893, 3893>>, <<3895, 3895>>, <<3897, 3897>>, <<3953, 3966>>,
     <<3968, 3972>>, <<3974, 3975>>, <<3981, 3991>>, <<3993, 4028>>,
     <<4038, 4038>>, <<4141, 4144>>, <<4146, 4151>>, <<4153, 4154>>,
     <<4157, 4158>>, <<4184, 4185>>, <<4190, 4192>>, <<4209, 4212>>,
     <<4226, 4226>>, <<4229, 4230>>, <<4237, 4237>>, <<4253, 4253>>,
     <<4348, 4348>>, <<4957, 4959>>, <<5906, 5908>>, <<5938, 5939>>,
     <<5970, 5971>>, <<6002, 6003>>, <<6068, 6069>>, <<6071, 6077>>,
     <<6086, 6086>>, <<6089, 6099>>, <<6103, 6103>>, <<6109, 6109>>,
     <<6155, 6159>>, <<6211, 6211>>, <<6277, 6278>>, <<6313, 6313>>,
     <<6432, 6434>>, <<6439, 6440>>, <<6450, 6450>>, <<6457, 6459>>,
     <<6679, 6680>>, <<6683, 6683>>, <<6742, 6742>>, <<6744, 6750>>,
     <<6752, 6752>>, <<6754, 6754>>, <<6757, 6764>>, <<6771, 6780>>,
     <<6783, 6783>>, <<6823, 6823>>, <<6832, 6862>>, <<6912, 6915>>,
     <<6964, 6964>>, <<6966, 6970>>, <<6972, 6972>>, <<6978, 6978>>,
     <<7019, 7027>>, <<7040, 7041>>, <<7074, 7077>>, <<7080, 7081>>,
     <<7083, 7085>>, <<7142, 7142>>, <<7144, 7145>>, <<7149, 7149>>,
     <<7151, 7153>>, <<7212, 7219>>, <<7222, 7223>>, <<7288, 7293>>,
     <<7376, 7378>>, <<7380, 7392>>, <<7394, 7400>>, <<7405, 7405>>,
     <<7412, 7412>>, <<7416, 7417>>, <<7468, 7530>>, <<7544, 7544>>,
     <<7579, 7679>>, <<8125, 8125>>, <<8127, 8129>>, <<8141, 8143>>,
     <<8157, 8159>>, <<8173, 8175>>, <<8189, 8190>>, <<8203, 8207>>,
     <<8216, 8217>>, <<8228, 8228>>, <<8231, 8231>>, <<8234, 8238>>,
     <<8288, 8292>>, <<8294, 8303>>, <<8305, 8305>>, <<8319, 8319>>,
     <<8336, 8348>>, <<8400, 8432>>, <<11388, 11389>>, <<11503, 11505>>,
     <<11631, 11631>>, <<11647, 11647>>, <<11744, 11775>>, <<11823, 11823>>,
     <<12293, 12293>>, <<12330, 12333>>, <<12337, 12341>>, <<12347, 12347>>,
     <<12441, 12446>>, <<12540, 12542>>, <<40981, 40981>>, <<42232, 42237>>,
     <<42508, 42508>>, <<42607, 42610>>, <<42612, 42621>>, <<42623, 42623>>,
     <<42652, 42655>>, <<42736, 42737>>, <<42752, 42785>>, <<42864, 42864>>,
     <<42888, 42890>>, <<42994, 42996>>, <<43000, 43001>>, <<43010, 43010>>,
     <<43014, 43014>>, <<43019, 43019>>, <<43045, 43046>>, <<43052, 43052>>,
     <<43204, 43205>>, <<43232, 43249>>, <<43263, 43263>>, <<43302, 43309>>,
     <<43335, 43345>>, <<43392, 43394>>, <<43443, 43443>>, <<43446, 43449>>,
     <<43452, 43453>>, <<43471, 43471>>, <<43493, 43494>>, <<43561, 43566>>,
     <<43569, 43570>>, <<43573, 43574>>, <<43587, 43587>>, <<43596, 43596>>,
     <<43632, 43632>>, <<43644, 43644>>, <<43696, 43696>>, <<43698, 43700>>,
     <<43703, 43704>>, <<43710, 43711>>, <<43713, 43713>>, <<43741, 43741>>,
     <<43756, 43757>>, <<43763, 43764>>, <<43766, 43766>>, <<43867, 43871>>,
     <<43881, 43883>>, <<44005, 44005>>, <<44008, 44008>>, <<44013, 44013>>,
     <<64286, 64286>>, <<64434, 64450>>, <<65024, 65039>>, <<65043, 65043>>,
     <<65056, 65071>>, <<65106, 65106>>, <<65109, 65109>>, <<65279, 65279>>,
     <<65287, 65287>>, <<65294, 65294>>, <<65306, 65306>>, <<65342, 65342>>,
     <<65344, 65344>>, <<65392, 65392>>, <<65438, 65439>>, <<65507, 65507>>,
     <<65529, 65531>>, <<66045, 66045>>, <<66272, 66272>>, <<66422, 66426>>,
     <<67456, 67461>>, <<67463, 67504>>, <<67506, 67514>>, <<68097, 68099>>,
     <<68101, 68102>>, <<68108, 68111>>, <<68152, 68154>>, <<68159, 68159>>,
     <<68325, 68326>>, <<68900, 68903>>, <<69291, 69292>>, <<69446, 69456>>,
     <<69506, 69509>>, <<69633, 69633>>, <<69688, 69702>>, <<69744, 69744>>,
     <<69747, 69748>>, <<69759, 69761>>, <<69811, 69814>>, <<69817, 69818>>,
     <<69821, 69821>>, <<69826, 69826>>, <<69837, 69837>>, <<69888, 69890>>,
     <<69927, 69931>>, <<69933, 69940>>, <<70003, 70003>>, <<70016, 70017>>,
     <<70070, 70078>>, <<70089, 70092>>, <<70095, 70095>>, <<70191, 70193>>,
     <<70196, 70196>>, <<70198, 70199>>, <<70206, 70206>>, <<70367, 70367>>,
     <<70371, 70378>>, <<70400, 70401>>, <<70459, 70460>>, <<70464, 70464>>,
     <<70502, 70508>>, <<70512, 70516>>, <<70712, 70719>>, <<70722, 70724>>,
     <<70726, 70726>>, <<70750, 70750>>, <<70835, 70840>>, <<70842, 70842>>,
     <<70847, 70848>>, <<70850, 70851>>, <<71090, 71093>>, <<71100, 71101>>,
     <<71103, 71104>>, <<71132, 71133>>, <<71219, 71226>>, <<71229, 71229>>,
     <<71231, 71232>>, <<71339, 71339>>, <<71341, 71341>>, <<71344, 71349>>,
     <<71351, 71351>>, <<71453, 71455>>, <<71458, 71461>>, <<71463, 71467>>,
     <<71727, 71735>>, <<71737, 71738>>, <<71995, 71996>>, <<71998, 71998>>,
     <<72003, 72003>>, <<72148, 72151>>, <<72154, 72155>>, <<72160, 72160>>,
     <<72193, 72202>>, <<72243, 72248>>, <<72251, 72254>>, <<72263, 72263>>,
     <<72273, 72278>>, <<72281, 72283>>, <<72330, 72342>>, <<72344, 72345>>,
     <<72752, 72758>>, <<72760, 72765>>, <<72767, 72767>>, <<72850, 72871>>,
     <<72874, 72880>>, <<72882, 72883>>, <<72885, 72886>>, <<73009, 73014>>,
     <<73018, 73018>>, <<73020, 73021>>, <<73023, 73029>>, <<73031, 73031>>,
     <<73104, 73105>>, <<73109, 73109>>, <<73111, 73111>>, <<73459, 73460>>,
     <<78896, 78904>>, <<92912, 92916>>, <<92976, 92982>>, <<92992, 92995>>,
     <<94031, 94031>>, <<94095, 94111>>, <<94176, 94177>>, <<94179, 94180>>,
     <<110576, 110579>>, <<110581, 110587>>, <<110589, 110590>>,
     <<113821, 113822>>, <<113824, 113827>>, <<118528, 118573>>,
     <<118576, 118598>>, <<119143, 119145>>, <<119155, 119170>>,
     <<119173, 119179>>, <<119210, 119213>>, <<119362, 119364>>,
     <<121344, 121398>>, <<121403, 121452>>, <<121461, 121461>>,
     <<121476, 121476>>, <<121499, 121503>>, <<121505, 121519>>,
     <<122880, 122886>>, <<122888, 122904>>, <<122907, 122913>>,
     <<122915, 122916>>, <<122918, 122922>>, <<123184, 123197>>,
     <<123566, 123566>>, <<123628, 123631>>, <<125136, 125142>>,
     <<125252, 125259>>, <<127995, 127999>>, <<917505, 917505>>,
     <<917536, 917631>>, <<917760, 917999>>}

\* <<first, last>>: the code points with the property Cased that are not
\* Case_Ignorable
CasedRanges ==
    {<<65, 90>>, <<97, 122>>, <<170, 170>>, <<181, 181>>, <<186, 186>>,
     <<192, 214>>, <<216, 246>>, <<248, 442>>, <<444, 447>>, <<452, 659>>,
     <<661, 687>>, <<880, 883>>, <<886, 887>>, <<891, 893>>, <<895, 895>>,
     <<902, 902>>, <<904, 906>>, <<908, 908>>, <<910, 929>>, <<931, 1013>>,
     <<1015, 1153>>, <<1162, 1327>>, <<1329, 1366>>, <<1376, 1416>>,
     <<4256, 4293>>, <<4295, 4295>>, <<4301, 4301>>, <<4304, 4346>>,
     <<4349, 4351>>, <<5024, 5109>>, <<5112, 5117>>, <<7296, 7304>>,
     <<7312, 7354>>, <<7357, 7359>>, <<7424, 7467>>, <<7531, 7543>>,
     <<7545, 7578>>, <<7680, 7957>>, <<7960, 7965>>, <<7968, 8005>>,
     <<8008, 8013>>, <<8016, 8023>>, <<8025, 8025>>, <<8027, 8027>>,
     <<8029, 8029>>, <<8031, 8061>>, <<8064, 8116>>, <<8118, 8124>>,
     <<8126, 8126>>, <<8130, 8132>>, <<8134, 8140>>, <<8144, 8147>>,
     <<8150, 8155>>, <<8160, 8172>>, <<8178, 8180>>, <<8182, 8188>>,
     <<8450, 8450>>, <<8455, 8455>>, <<8458, 8467>>, <<8469, 8469>>,
     <<8473, 8477>>, <<8484, 8484>>, <<8486, 8486>>, <<8488, 8488>>,
     <<8490, 8493>>, <<8495, 8500>>, <<8505, 8505>>, <<8508, 8511>>,
     <<8517, 8521>>, <<8526, 8526>>, <<8544, 8575>>, <<8579, 8580>>,
     <<9398, 9449>>, <<11264, 11387>>, <<11390, 11492>>, <<11499, 11502>>,
     <<11506, 11507>>, <<11520, 11557>>, <<11559, 11559>>, <<11565, 11565>>,
     <<42560, 42605>>, <<42624, 42651>>, <<42786, 42863>>, <<42865, 42887>>,
     <<42891, 42894>>, <<42896, 42954>>, <<42960, 42961>>, <<42963, 42963>>,
     <<42965, 42969>>, <<42997, 42998>>, <<43002, 43002>>, <<43824, 43866>>,
     <<43872, 43880>>, <<43888, 43967>>, <<64256, 64262>>, <<64275, 64279>>,
     <<65313, 65338>>, <<65345, 65370>>, <<66560, 66639>>, <<66736, 66771>>,
     <<66776, 66811>>, <<66928, 66938>>, <<66940, 66954>>, <<66956, 66962>>,
     <<66964, 66965>>, <<66967, 66977>>, <<66979, 66993>>, <<66995, 67001>>,
     <<67003, 67004>>, <<68736, 68786>>, <<68800, 68850>>, <<71840, 71903>>,
     <<93760, 93823>>, <<119808, 119892>>, <<119894, 119964>>,
     <<119966, 119967>>, <<119970, 119970>>, <<119973, 119974>>,
     <<119977, 119980>>, <<119982, 119993>>, <<119995, 119995>>,
     <<119997, 120003>>, <<120005, 120069>>, <<120071, 120074>>,
     <<120077, 120084>>, <<120086, 120092>>, <<120094, 120121>>,
     <<120123, 120126>>, <<120128, 120132>>, <<120134, 120134>>,
     <<120138, 120144>>, <<120146, 120485>>, <<120488, 120512>>,
     <<120514, 120538>>, <<120540, 120570>>, <<120572, 120596>>,
     <<120598, 120628>>, <<120630, 120654>>, <<120656, 120686>>,
     <<120688, 120712>>, <<120714, 120744>>, <<120746, 120770>>,
     <<120772, 120779>>, <<122624, 122633>>, <<122635, 122654>>,
     <<125184, 125251>>, <<127280, 127305>>, <<127312, 127337>>,
     <<127344, 127369>>}

\* <<first, last>>: the code points str.strip() removes
WhitespaceRanges ==
    {<<9, 13>>, <<28, 32>>, <<133, 133>>, <<160, 160>>, <<5760, 5760>>,
     <<8192, 8202>>, <<8232, 8233>>, <<8239, 8239>>, <<8287, 8287>>,
     <<12288, 12288>>}

CaseIgnorable(c) == \E r \in CaseIgnorableRanges : r[1] <= c /\ c <= r[2]

Cased(c) == \E r \in CasedRanges : r[1] <= c /\ c <= r[2]

\* the lowercase of one code point outside any context; ASCII is decided
\* without the table
LowerChar(c) ==
    IF c < 128
    THEN (IF 65 <= c /\ c <= 90 THEN <<c + 32>> ELSE <<c>>)
    ELSE IF c = 304
    THEN <<105, 775>>
    ELSE IF \E r \in LowerRanges :
                r[1] <= c /\ c <= r[2] /\ (c - r[1]) % r[3] = 0
    THEN LET r == CHOOSE r \in LowerRanges :
                      r[1] <= c /\ c <= r[2] /\ (c - r[1]) % r[3] = 0
         IN  <<c + r[4]>>
    ELSE <<c>>

\* the nearest position before i (0 if none) whose character is not
\* case-ignorable
RECURSIVE PrecedingLetter(_, _)
PrecedingLetter(s, i) ==
    IF i = 0 THEN 0
    ELSE IF CaseIgnorable(s[i]) THEN PrecedingLetter(s, i - 1)
    ELSE i

\* the nearest position after i (Len(s) + 1 if none) whose character is not
\* case-ignorable
RECURSIVE FollowingLetter(_, _)
FollowingLetter(s, i) ==
    IF i > Len(s) THEN i
    ELSE IF CaseIgnorable(s[i]) THEN FollowingLetter(s, i + 1)
    ELSE i

\* capital sigma at position i lowers to the final form after a cased
\* letter when no cased letter follows
FinalSigma(s, i) ==
    LET j == PrecedingLetter(s, i - 1)
        k == FollowingLetter(s, i + 1)
    IN  /\ j >= 1 /\ Cased(s[j])
        /\ (k > Len(s) \/ ~Cased(s[k]))

RECURSIVE LowerFrom(_, _)
LowerFrom(s, i) ==
    IF i > Len(s) THEN <<>>
    ELSE (IF s[i] = 931
          THEN (IF FinalSigma(s, i) THEN <<962>> ELSE <<963>>)
          ELSE LowerChar(s[i]))
         \o LowerFrom(s, i + 1)

\* str.lower()
Lower(s) == LowerFrom(s, 1)

\* the `in` operator of two strings: kw occurs as a substring of text
Contains(text, kw) ==
    \E b \in 0..(Len(text) - Len(kw)) : SubSeq(text, b + 1, b + Len(kw)) = kw

Whitespace(c) == \E r \in WhitespaceRanges : r[1] <= c /\ c <= r[2]

\* salary_value.strip() == ""
IsBlank(s) == \A k \in 1..Len(s) : Whitespace(s[k])

---------------------------------------------------------------------------
(* Natural numbers of any size, for the 53-bit significands: a sequence of *)
(* limbs in base 2^14, least significant first, without a leading zero     *)

LimbBits == 14

Base == 2 ^ LimbBits

RECURSIVE BigTrim(_)
BigTrim(a) ==
    IF a = <<>> THEN <<>>
    ELSE IF a[Len(a)] = 0 THEN BigTrim(SubSeq(a, 1, Len(a) - 1))
    ELSE a

RECURSIVE BigFromInt(_)
BigFromInt(n) ==
    IF n = 0 THEN <<>> ELSE <<n % Base>> \o BigFromInt(n \div Base)

Limb(a, i) == IF i <= Len(a) THEN a[i] ELSE 0

RECURSIVE BigAddFrom(_, _, _, _)
BigAddFrom(a, b, i, carry) ==
    IF i > Len(a) /\ i > Len(b)
    THEN (IF carry = 0 THEN <<>> ELSE <<carry>>)
    ELSE LET t == Limb(a, i) + Limb(b, i) + carry
         IN  <<t % Base>> \o BigAddFrom(a, b, i + 1, t \div Base)

BigAdd(a, b) == BigAddFrom(a, b, 1, 0)

RECURSIVE BigSubFrom(_, _, _, _)
BigSubFrom(a, b, i, borrow) ==
    IF i > Len(a) THEN <<>>
    ELSE LET t == a[i] - Limb(b, i) - borrow
         IN  <<t % Base>> \o BigSubFrom(a, b, i + 1, IF t < 0 THEN 1 ELSE 0)

\* a - b for a >= b
BigSub(a, b) == BigTrim(BigSubFrom(a, b, 1, 0))

RECURSIVE BigLessFrom(_, _, _)
BigLessFrom(a, b, i) ==
    IF i = 0 THEN FALSE
    ELSE IF a[i] # b[i] THEN a[i] < b[i]
    ELSE BigLessFrom(a, b, i - 1)

BigLess(a, b) ==
    IF Len(a) # Len(b) THEN Len(a) < Len(b) ELSE BigLessFrom(a, b, Len(a))

RECURSIVE BigMulSmallFrom(_, _, _, _)
BigMulSmallFrom(a, m, i, carry) ==
    IF i > Len(a)
    THEN (IF carry = 0 THEN <<>> ELSE <<carry>>)
    ELSE LET t == a[i] * m + carry
         IN  <<t % Base>> \o BigMulSmallFrom(a, m, i + 1, t \div Base)

\* a * m for 0 < m < Base
BigMulSmall(a, m) == BigMulSmallFrom(a, m, 1, 0)

RECURSIVE BigMul(_, _)
BigMul(a, b) ==
    IF a = <<>> \/ b = <<>> THEN <<>>
    ELSE BigAdd(IF b[1] = 0 THEN <<>> ELSE BigMulSmall(a, b[1]),
                BigTrim(<<0>> \o BigMul(a, Tail(b))))

\* long division of a by q, 0 < q < 2^17, from limb i downwards: rem is the
\* remainder and quot the quotient of the limbs above i
RECURSIVE BigDivFrom(_, _, _, _, _)
BigDivFrom(a, q, i, rem, quot) ==
    IF i = 0 THEN [quot |-> BigTrim(quot), rem |-> rem]
    ELSE BigDivFrom(a, q, i - 1, (rem * Base + a[i]) % q,
                    <<(rem * Base + a[i]) \div q>> \o quot)

\* quotient and remainder of a by q
BigDivSmall(a, q) == BigDivFrom(a, q, Len(a), 0, <<>>)

RECURSIVE IntBitLen(_)
IntBitLen(n) == IF n = 0 THEN 0 ELSE 1 + IntBitLen(n \div 2)

BitLen(a) ==
    IF a = <<>> THEN 0 ELSE LimbBits * (Len(a) - 1) + IntBitLen(a[Len(a)])

\* a * 2^k
BigShl(a, k) ==
    IF a = <<>> THEN <<>>
    ELSE [i \in 1..(k \div LimbBits) |-> 0] \o BigMulSmall(a, 2 ^ (k % LimbBits))

\* a \div 2^k
BigShr(a, k) ==
    BigDivSmall(SubSeq(a, (k \div LimbBits) + 1, Len(a)), 2 ^ (k % LimbBits)).quot

\* bit k of a, bit 0 the least significant
BigBit(a, k) == (Limb(a, (k \div LimbBits) + 1) \div (2 ^ (k % LimbBits))) % 2

---------------------------------------------------------------------------
(* Python floats: sign in {-1, 0, 1}; man is 0 for the value 0 and has     *)
(* exactly 53 bits otherwise, so equal values are equal records            *)

MantissaBits == 53

FloatZero == [sign |-> 0, man |-> <<>>, exp |-> 0]

\* sign * (m + f) * 2^e rounded to the nearest double, ties to even, where
\* 0 <= f < 1 and sticky says that f > 0
\* the float of significand r, which has 53 bits, or 54 after a carry
FloatNormal(sign, r, e) ==
    IF BitLen(r) > MantissaBits
    THEN [sign |-> sign, man |-> BigShr(r, 1), exp |-> e + 1]
    ELSE [sign |-> sign, man |-> r, exp |-> e]

\* q is m without its k lowest bits: whether these bits round q upwards,
\* which they do above one half, and at one half when q is odd
RoundsUp(m, q, k, sticky) ==
    /\ BigBit(m, k - 1) = 1
    /\ \/ sticky
       \/ BigShl(BigShr(m, k - 1), k - 1) # m
       \/ BigBit(q, 0) = 1

FloatRoundTo(sign, m, q, k, e, sticky) ==
    FloatNormal(sign, IF RoundsUp(m, q, k, sticky) THEN BigAdd(q, <<1>>) ELSE q,
                e + k)

\* m has k bits more than a significand holds
FloatRoundBy(sign, m, k, e, sticky) ==
    IF k <= 0
    THEN [sign |-> sign, man |-> BigShl(m, -k), exp |-> e + k]
    ELSE FloatRoundTo(sign, m, BigShr(m, k), k, e, sticky)

FloatRound(sign, m, e, sticky) ==
    IF m = <<>> THEN FloatZero
    ELSE FloatRoundBy(sign, m, BitLen(m) - MantissaBits, e, sticky)

IntSign(n) == IF n < 0 THEN -1 ELSE IF n = 0 THEN 0 ELSE 1

Abs(n) == IF n < 0 THEN -n ELSE n

\* float(n) of an int
FloatFromInt(n) == FloatRound(IntSign(n), BigFromInt(Abs(n)), 0, FALSE)

\* p / q of two ints, q # 0: the quotient correctly rounded
FloatOfQuotient(sign, d, e) == FloatRound(sign, d.quot, e, d.rem # 0)

\* p / q computed from the quotient and remainder of p * 2^shift by q
TrueDivShifted(p, q, shift) ==
    FloatOfQuotient(IntSign(p) * IntSign(q),
                    BigDivSmall(BigShl(BigFromInt(Abs(p)), shift), Abs(q)),
                    -shift)

TrueDiv(p, q) == TrueDivShifted(p, q, MantissaBits + 3 + IntBitLen(Abs(q)))

\* a + b where ma * 2^e and mb * 2^e are the magnitudes of a and b: the
\* sum has the sign of the greater magnitude, and is 0.0 when they cancel
FloatAddAligned(a, b, ma, mb, e) ==
    FloatRound(IF a.sign = b.sign \/ BigLess(mb, ma) THEN a.sign ELSE b.sign,
               IF a.sign = b.sign THEN BigAdd(ma, mb)
               ELSE IF BigLess(ma, mb) THEN BigSub(mb, ma)
               ELSE BigSub(ma, mb),
               e, FALSE)

FloatAddAt(a, b, e) ==
    FloatAddAligned(a, b, BigShl(a.man, a.exp - e), BigShl(b.man, b.exp - e), e)

FloatAdd(a, b) ==
    IF a.sign = 0 THEN b
    ELSE IF b.sign = 0 THEN a
    ELSE FloatAddAt(a, b, IF a.exp < b.exp THEN a.exp ELSE b.exp)

FloatSub(a, b) == FloatAdd(a, [b EXCEPT !.sign = -b.sign])

FloatMul(a, b) ==
    FloatRound(a.sign * b.sign, BigMul(a.man, b.man), a.exp + b.exp, FALSE)

\* a < b
FloatLess(a, b) ==
    IF a.sign # b.sign THEN a.sign < b.sign
    ELSE IF a.sign = 0 THEN FALSE
    ELSE IF a.exp # b.exp
    THEN (IF a.sign = 1 THEN a.exp < b.exp ELSE b.exp < a.exp)
    ELSE (IF a.sign = 1 THEN BigLess(a.man, b.man) ELSE BigLess(b.man, a.man))

\* a <= b
FloatLE(a, b) == ~FloatLess(b, a)

\* max(a, b) of Python: the first argument unless the second is greater
FloatMax(a, b) == IF FloatLess(a, b) THEN b ELSE a

Zero == FloatFromInt(0)

One == FloatFromInt(1)

---------------------------------------------------------------------------
(* datetime.fromisoformat of Python 3.11.  Positions in a string count from *)
(* 0 and the character past the end reads as 0, as the parser reads it      *)

CharAt(s, p) == IF 0 <= p /\ p < Len(s) THEN s[p + 1] ELSE 0

IsDigit(c) == 48 <= c /\ c <= 57

IsSurrogate(c) == 55296 <= c /\ c <= 57343

\* the number written in the n characters from position p, -1 unless all
\* of them are digits
RECURSIVE ParseDigits(_, _, _)
ParseDigits(s, p, n) ==
    IF n = 0 THEN 0
    ELSE LET rest == ParseDigits(s, p, n - 1)
             c    == CharAt(s, p + n - 1)
         IN  IF rest < 0 \/ ~IsDigit(c) THEN -1 ELSE 10 * rest + (c - 48)

IsLeap(y) == (y % 4 = 0) /\ ((y % 100 # 0) \/ (y % 400 = 0))

DaysInMonth(y, m) ==
    IF m = 2 THEN (IF IsLeap(y) THEN 29 ELSE 28)
    ELSE IF m \in {4, 6, 9, 11} THEN 30 ELSE 31

RECURSIVE DaysBeforeMonth(_, _)
DaysBeforeMonth(y, m) ==
    IF m = 1 THEN 0 ELSE DaysBeforeMonth(y, m - 1) + DaysInMonth(y, m - 1)

\* days before January 1st of year y, counted from 0001-01-01
DaysBeforeYear(y) ==
    LET p == y - 1
    IN  p * 365 + (p \div 4) - (p \div 100) + (p \div 400)

\* the day number of a date: 0001-01-01 is day 1
YmdToOrd(y, m, d) == DaysBeforeYear(y) + DaysBeforeMonth(y, m) + d

MaxOrdinal == YmdToOrd(9999, 12, 31)

\* the date of day n of the year, n counted from 0
DayOfYear(year, month, n) ==
    [year |-> year, month |-> month, day |-> n - DaysBeforeMonth(year, month) + 1]

\* the date of a day number: the 400-year, 100-year and 4-year cycles before
\* it are taken off first, which leaves day n (from 0) of the year
OrdToYmdIn(year, n100, n1, n) ==
    IF n1 = 4 \/ n100 = 4
    THEN [year |-> year - 1, month |-> 12, day |-> 31]
    ELSE DayOfYear(year,
                   CHOOSE m \in 1..12 :
                       /\ DaysBeforeMonth(year, m) <= n
                       /\ n < DaysBeforeMonth(year, m) + DaysInMonth(year, m),
                   n)

OrdToYmdIn4(y100, n100, r100) ==
    OrdToYmdIn(y100 + (r100 \div 1461) * 4 + ((r100 % 1461) \div 365), n100,
               (r100 % 1461) \div 365, (r100 % 1461) % 365)

OrdToYmdIn400(y400, r400) ==
    OrdToYmdIn4(y400 + (r400 \div 36524) * 100, r400 \div 36524, r400 % 36524)

OrdToYmd(ordinal) ==
    OrdToYmdIn400(((ordinal - 1) \div 146097) * 400 + 1, (ordinal - 1) % 146097)

\* the day number of the Monday that starts ISO week 1 of a year whose
\* January 1st is day first_day: that day's week when it starts on Monday
\* to Thursday, else the week after
Week1Monday(first_day) ==
    IF (first_day + 6) % 7 > 3
    THEN first_day - ((first_day + 6) % 7) + 7
    ELSE first_day - ((first_day + 6) % 7)

IsoWeek1Monday(year) == Week1Monday(YmdToOrd(year, 1, 1))

\* a lone surrogate at position 7, 8 or 10, where a separator can stand, is
\* read as "T"; the first of these positions that holds one is replaced
SanitizeIsoformatStr(s) ==
    LET at == {pos \in {7, 8, 10} : IsSurrogate(CharAt(s, pos))}
    IN  IF at = {} THEN s
        ELSE LET pos == CHOOSE p \in at : \A q \in at : p <= q
             IN  [s EXCEPT ![pos + 1] = 84]

\* the first position from p on that does not hold a digit
RECURSIVE SkipDigits(_, _)
SkipDigits(s, p) == IF IsDigit(CharAt(s, p)) THEN SkipDigits(s, p + 1) ELSE p

\* where the date part ends: 7, 8 or 10
FindIsoformatDatetimeSeparator(s) ==
    LET len == Len(s)
    IN  IF len = 7 THEN 7
        ELSE IF CharAt(s, 4) = 45
        THEN (IF CharAt(s, 5) = 87
              THEN (IF len < 8 THEN -1
                    ELSE IF len > 8 /\ CharAt(s, 8) = 45
                    THEN (IF len = 9 THEN -1
                          ELSE IF len > 10 /\ IsDigit(CharAt(s, 10)) THEN 8
                          ELSE 10)
                    ELSE 8)
              ELSE 10)
        ELSE IF CharAt(s, 4) = 87
        THEN LET stop == SkipDigits(s, 7)
             IN  IF stop < 9 THEN stop
                 ELSE IF stop % 2 = 0 THEN 7 ELSE 8
        ELSE 8

NoDate == [ok |-> FALSE, year |-> 0, month |-> 0, day |-> 0]

OrdinalDate(ordinal) ==
    IF ordinal < 1 \/ ordinal > MaxOrdinal THEN NoDate
    ELSE [ok |-> TRUE] @@ OrdToYmd(ordinal)

\* the date of day iso_day of week iso_week of the ISO year; a year has a
\* week 53 when it starts on a Thursday, or on a Wednesday and is a leap year
IsoToYmd(year, iso_week, iso_day) ==
    IF year < 1 THEN NoDate
    ELSE IF (iso_week <= 0 \/ iso_week >= 53)
              /\ ~(iso_week = 53
                     /\ \/ (YmdToOrd(year, 1, 1) + 6) % 7 = 3
                        \/ (YmdToOrd(year, 1, 1) + 6) % 7 = 2 /\ IsLeap(year))
    THEN NoDate
    ELSE IF iso_day <= 0 \/ iso_day >= 8 THEN NoDate
    ELSE OrdinalDate(IsoWeek1Monday(year) + (iso_week - 1) * 7 + iso_day - 1)

IsoWeekDate(year, iso_week, dash_ok, iso_day) ==
    IF iso_week < 0 \/ ~dash_ok \/ iso_day < 0 THEN NoDate
    ELSE IsoToYmd(year, iso_week, iso_day)

\* Www, Www-D or WwwD, the W at position p
ParseIsoWeekDate(s, len, year, uses_separator, p) ==
    IsoWeekDate(year,
                ParseDigits(s, p + 1, 2),
                ~(p + 3 < len) \/ ~uses_separator \/ CharAt(s, p + 3) = 45,
                IF ~(p + 3 < len) THEN 1
                ELSE ParseDigits(s, IF uses_separator THEN p + 4 ELSE p + 3, 1))

MonthDayDate(year, month, dash_ok, day) ==
    IF month < 0 \/ ~dash_ok \/ day < 0 THEN NoDate
    ELSE [ok |-> TRUE, year |-> year, month |-> month, day |-> day]

\* MM-DD or MMDD from position p
ParseMonthDay(s, year, uses_separator, p) ==
    MonthDayDate(year,
                 ParseDigits(s, p, 2),
                 ~uses_separator \/ CharAt(s, p + 2) = 45,
                 ParseDigits(s, IF uses_separator THEN p + 3 ELSE p + 2, 2))

ParseDateAfterYear(s, len, year, uses_separator, p) ==
    IF year < 0 THEN NoDate
    ELSE IF CharAt(s, p) = 87
    THEN ParseIsoWeekDate(s, len, year, uses_separator, p)
    ELSE ParseMonthDay(s, year, uses_separator, p)

\* the date part, which ends at position len: YYYY-MM-DD, YYYYMMDD,
\* YYYY-Www, YYYYWww, YYYY-Www-D or YYYYWwwD
ParseIsoformatDate(s, len) ==
    ParseDateAfterYear(s, len, ParseDigits(s, 0, 4), CharAt(s, 4) = 45,
                       IF CharAt(s, 4) = 45 THEN 5 ELSE 4)

\* rv is 0 when the text ended with the last field read, 1 when something
\* follows it, -1 on an error
NoTime == [rv |-> -1, hour |-> 0, minute |-> 0, second |-> 0, microsecond |-> 0]

TimeOf(rv, vals, microsecond) ==
    [rv |-> rv,
     hour |-> IF Len(vals) >= 1 THEN vals[1] ELSE 0,
     minute |-> IF Len(vals) >= 2 THEN vals[2] ELSE 0,
     second |-> IF Len(vals) >= 3 THEN vals[3] ELSE 0,
     microsecond |-> microsecond]

\* the fraction of a second from position p: up to six digits count, the
\* digits after them are skipped
ParseFraction(s, p_end, p, vals) ==
    LET len_remains == p_end - p
        to_parse    == IF len_remains >= 6 THEN 6 ELSE len_remains
        digits      == ParseDigits(s, p, to_parse)
        rest        == SkipDigits(s, p + to_parse)
    IN  IF digits < 0 THEN NoTime
        ELSE TimeOf(IF CharAt(s, rest) # 0 THEN 1 ELSE 0, vals,
                    digits * 10 ^ (6 - to_parse))

\* the loop over hour, minute and second: field i is read at position p
RECURSIVE ParseFields(_, _, _, _, _, _)
ParseFields(s, p_end, i, p, has_separator, vals) ==
    LET field == ParseDigits(s, p, 2)
        c     == CharAt(s, p + 2)
        next  == p + 3
        sep   == IF i = 0 THEN c = 58 ELSE has_separator
        read  == Append(vals, field)
    IN  IF field < 0 THEN NoTime
        ELSE IF c >= 128 THEN NoTime
        ELSE IF next >= p_end THEN TimeOf(IF c # 0 THEN 1 ELSE 0, read, 0)
        ELSE IF sep /\ c = 58
        THEN (IF i = 2 THEN ParseFraction(s, p_end, next, read)
              ELSE ParseFields(s, p_end, i + 1, next, sep, read))
        ELSE IF c = 46 \/ c = 44 THEN ParseFraction(s, p_end, next, read)
        ELSE IF ~sep
        THEN (IF i = 2 THEN ParseFraction(s, p_end, next - 1, read)
              ELSE ParseFields(s, p_end, i + 1, next - 1, sep, read))
        ELSE NoTime

\* HH[:MM[:SS[.ffffff]]] between positions p and p_end
ParseHhMmSsFf(s, p, p_end) == ParseFields(s, p_end, 0, p, TRUE, <<>>)

\* tzinfo of a datetime: none, the object timezone.utc, or a fixed offset of
\* seconds and microseconds of one sign
NoTzinfo == [kind |-> "none", seconds |-> 0, microseconds |-> 0]

TimezoneUtc == [kind |-> "utc", seconds |-> 0, microseconds |-> 0]

Timezone(seconds, microseconds) ==
    [kind |-> "offset", seconds |-> seconds, microseconds |-> microseconds]

\* the first position from p on, before p_end, that holds Z, + or -
RECURSIVE FindTzinfo(_, _, _)
FindTzinfo(s, p, p_end) ==
    IF p >= p_end THEN p_end
    ELSE IF CharAt(s, p) \in {90, 43, 45} THEN p
    ELSE FindTzinfo(s, p + 1, p_end)

\* what the time part parses to: whether it is well-formed, the time and the
\* tzinfo
TimeFailed == [ok |-> FALSE, time |-> NoTime, tzinfo |-> NoTzinfo]

TimeWith(time, tzinfo) == [ok |-> TRUE, time |-> time, tzinfo |-> tzinfo]

\* the tzinfo of an offset of tzoffset whole seconds: timezone.utc when
\* these are 0, whatever the microseconds
TzinfoOf(time, tzoffset, microseconds) ==
    IF tzoffset = 0 THEN TimeWith(time, TimezoneUtc)
    ELSE IF Abs(tzoffset) >= 86400 THEN TimeFailed
    ELSE TimeWith(time, Timezone(tzoffset, microseconds))

\* tz is the offset as parsed, written after the sign tzsign
TimeWithOffset(time, tzsign, tz) ==
    IF tz.rv # 0 THEN TimeFailed
    ELSE TzinfoOf(time, tzsign * (tz.hour * 3600 + tz.minute * 60 + tz.second),
                  tzsign * tz.microsecond)

\* time is the time as parsed up to tzinfo_pos, where Z, + or - stands,
\* unless tzinfo_pos is the end of the text
TimeAndTzinfo(s, p_end, tzinfo_pos, time) ==
    IF time.rv < 0 THEN TimeFailed
    ELSE IF tzinfo_pos = p_end
    THEN (IF time.rv = 1 THEN TimeFailed ELSE TimeWith(time, NoTzinfo))
    ELSE IF CharAt(s, tzinfo_pos) = 90
    THEN (IF CharAt(s, tzinfo_pos + 1) # 0 THEN TimeFailed
          ELSE TimeWith(time, TimezoneUtc))
    ELSE TimeWithOffset(time, IF CharAt(s, tzinfo_pos) = 45 THEN -1 ELSE 1,
                        ParseHhMmSsFf(s, tzinfo_pos + 1, p_end))

ParseTimeUpTo(s, p, p_end, tzinfo_pos) ==
    TimeAndTzinfo(s, p_end, tzinfo_pos, ParseHhMmSsFf(s, p, tzinfo_pos))

\* the time part from position p to the end, with the offset that follows it
ParseIsoformatTime(s, p) == ParseTimeUpTo(s, p, Len(s), FindTzinfo(s, p, Len(s)))

\* the checks of the datetime constructor on the fields read
NewDateTime(date, time, tzinfo) ==
    IF \/ date.year < 1 \/ date.year > 9999
       \/ date.month < 1 \/ date.month > 12
       \/ date.day < 1 \/ date.day > DaysInMonth(date.year, date.month)
       \/ time.hour > 23 \/ time.minute > 59 \/ time.second > 59
    THEN Raise("ValueError")
    ELSE Return([t |-> "datetime", year |-> date.year, month |-> date.month,
                 day |-> date.day, hour |-> time.hour, minute |-> time.minute,
                 second |-> time.second, microsecond |-> time.microsecond,
                 tzinfo |-> tzinfo])

DateTimeOf(date, rest) ==
    IF ~date.ok \/ ~rest.ok THEN Raise("ValueError")
    ELSE NewDateTime(date, rest.time, rest.tzinfo)

\* the date part ends at position sep, and the time part follows the
\* separator if the text is longer
ParseDateTime(s, sep) ==
    IF sep < 0 THEN Raise("ValueError")
    ELSE DateTimeOf(ParseIsoformatDate(s, sep),
                    IF Len(s) > sep THEN ParseIsoformatTime(s, sep + 1)
                    ELSE TimeWith(TimeOf(0, <<>>, 0), NoTzinfo))

ParseSanitized(s) ==
    IF \E k \in 1..Len(s) : IsSurrogate(s[k]) THEN Raise("ValueError")
    ELSE ParseDateTime(s, FindIsoformatDatetimeSeparator(s))

\* datetime.fromisoformat(date_string) for a str: the datetime, or ValueError
FromIsoFormat(date_string) ==
    IF Len(date_string) < 7 THEN Raise("ValueError")
    ELSE ParseSanitized(SanitizeIsoformatStr(date_string))
---------------------------------------------------------------------------
(* Helper functions of main.py: dates *)

NoDateTime == [t |-> "none"]

\* the try block, on the outcome of datetime.fromisoformat
AwareOrNone(dt) ==
    IF dt.raised = "ValueError" THEN Return(NoDateTime)
    ELSE IF dt.value.tzinfo.kind = "none"
    THEN Return([dt.value EXCEPT !.tzinfo = TimezoneUtc])
    ELSE dt

parse_iso_date(date_str) ==
    IF date_str.t = "none" \/ date_str = Str(<<>>)
    THEN Return(NoDateTime)
    ELSE IF date_str.t # "str"
    THEN Raise("TypeError")
    ELSE AwareOrNone(FromIsoFormat(date_str.v))

NO_DATE_DAYS == 9999

SecondsPerDay == 86400

\* an instant on the UTC time line: day number, second of the day, microsecond
Instant(day, second, microsecond) ==
    LET s == second + (microsecond \div 1000000)
    IN  [day |-> day + (s \div SecondsPerDay), second |-> s % SecondsPerDay,
         microsecond |-> microsecond % 1000000]

\* dt.astimezone(timezone.utc) of an aware datetime: dt itself when its tzinfo
\* is timezone.utc, else dt - dt.utcoffset(), which must stay within the
\* years 1..9999
InRange(tzinfo, utc) ==
    IF tzinfo.kind # "utc" /\ (utc.day < 1 \/ utc.day > MaxOrdinal)
    THEN Raise("OverflowError")
    ELSE Return(utc)

AsTimezoneUtc(dt) ==
    InRange(dt.tzinfo,
            Instant(YmdToOrd(dt.year, dt.month, dt.day),
                    dt.hour * 3600 + dt.minute * 60 + dt.second
                        - dt.tzinfo.seconds,
                    dt.microsecond - dt.tzinfo.microseconds))

\* datetime.now(timezone.utc) when the clock shows `clock` seconds since
\* 1970-01-01T00:00:00Z
UtcNow(clock) == Instant(YmdToOrd(1970, 1, 1), clock, 0)

\* (a - b).days: the whole days from b to a, rounded down
DeltaDays(a, b) ==
    a.day - b.day
        - (IF \/ a.second < b.second
              \/ a.second = b.second /\ a.microsecond < b.microsecond
           THEN 1 ELSE 0)

\* (now - utc).days, unless the conversion to utc raised
DaysSinceUtc(now_utc, utc) ==
    IF utc.raised # "none" THEN utc
    ELSE Return(DeltaDays(now_utc, utc.value))

\* days_since with a missing date counted as posted today
days_since_missing_is_today(posted_dt, clock) ==
    IF posted_dt.t = "none"
    THEN Return(0)
    ELSE DaysSinceUtc(UtcNow(clock), AsTimezoneUtc(posted_dt))

\* clock is the value datetime.now(timezone.utc) returns during the call
days_since(posted_dt, clock) ==
    IF posted_dt.t = "none"
    THEN Return(NO_DATE_DAYS)
    ELSE DaysSinceUtc(UtcNow(clock), AsTimezoneUtc(posted_dt))

---------------------------------------------------------------------------
(* Helper functions of main.py: scoring and filtering *)

RECENCY_CUTOFF_DAYS == 7

RECENCY_SLOPE_DENOM == 14

\* the float literals 0.50, 0.40 and 0.10
WEIGHT_RECENCY == TrueDiv(50, 100)

WEIGHT_KEYWORDS == TrueDiv(40, 100)

WEIGHT_SALARY == TrueDiv(10, 100)

\* the number of places where kw occurs in text
Occurrences(text, kw) ==
    Cardinality({b \in 0..(Len(text) - Len(kw)) :
                     SubSeq(text, b + 1, b + Len(kw)) = kw})

\* CountFrom with every occurrence of a keyword counted
RECURSIVE CountEveryOccurrence(_, _, _)
CountEveryOccurrence(text_lower, keywords, k) ==
    IF k > Len(keywords) THEN 0
    ELSE Occurrences(text_lower, Lower(keywords[k]))
         + CountEveryOccurrence(text_lower, keywords, k + 1)

\* the for loop over keywords from the k-th on
RECURSIVE CountFrom(_, _, _)
CountFrom(text_lower, keywords, k) ==
    IF k > Len(keywords) THEN 0
    ELSE (IF Contains(text_lower, Lower(keywords[k])) THEN 1 ELSE 0)
         + CountFrom(text_lower, keywords, k + 1)

\* text is a Python value (None or str), keywords a list of strings
keyword_match_count(text, keywords) ==
    LET txt        == IF text.t = "none" THEN <<>> ELSE text.v
        text_lower == Lower(txt)
    IN  CountFrom(text_lower, keywords, 1)

\* recency_score with the cutoff day itself cut off
recency_score_cutoff_inclusive(days_old) ==
    IF days_old >= RECENCY_CUTOFF_DAYS
    THEN Zero
    ELSE LET r == FloatSub(One, TrueDiv(days_old, RECENCY_SLOPE_DENOM))
         IN  FloatMax(Zero, r)

recency_score(days_old) ==
    IF days_old > RECENCY_CUTOFF_DAYS
    THEN Zero
    ELSE LET r == FloatSub(One, TrueDiv(days_old, RECENCY_SLOPE_DENOM))
         IN  FloatMax(Zero, r)

keyword_score(match_count, total_keywords) ==
    IF total_keywords = 0 THEN Zero ELSE TrueDiv(match_count, total_keywords)

salary_score(salary_value) ==
    IF salary_value.t = "none" THEN Zero
    ELSE IF salary_value.t = "str" /\ IsBlank(salary_value.v) THEN Zero
    ELSE One

job_score(r, k, s) ==
    FloatAdd(FloatAdd(FloatMul(WEIGHT_RECENCY, r), FloatMul(WEIGHT_KEYWORDS, k)),
             FloatMul(WEIGHT_SALARY, s))

EmptyStr == Str(<<>>)

\* passes_filters with a listing exactly max_days_old days old rejected
passes_filters_strict_age(job, keywords, category_filter, max_days_old, clock) ==
    LET title        == Get(job, "title", EmptyStr)
        description  == Get(job, "description", EmptyStr)
        category     == Get(job, "category", EmptyStr)
        pub_date_str == Get(job, "publication_date", EmptyStr)
        text         == Str(Format(title) \o <<32>> \o Format(description))
        posted_dt    == parse_iso_date(pub_date_str)
        d_old        == days_since(posted_dt.value, clock)
    IN  IF Len(keywords) > 0 /\ keyword_match_count(text, keywords) = 0
        THEN Return(FALSE)
        ELSE IF category_filter # EmptyStr /\ category # category_filter
        THEN Return(FALSE)
        ELSE IF posted_dt.raised # "none" THEN posted_dt
        ELSE IF d_old.raised # "none" THEN d_old
        ELSE IF d_old.value >= max_days_old
        THEN Return(FALSE)
        ELSE Return(TRUE)

\* an exception of parse_iso_date or days_since is not caught: it is the
\* outcome of the call
passes_filters(job, keywords, category_filter, max_days_old, clock) ==
    LET title        == Get(job, "title", EmptyStr)
        description  == Get(job, "description", EmptyStr)
        category     == Get(job, "category", EmptyStr)
        pub_date_str == Get(job, "publication_date", EmptyStr)
        text         == Str(Format(title) \o <<32>> \o Format(description))
        posted_dt    == parse_iso_date(pub_date_str)
        d_old        == days_since(posted_dt.value, clock)
    IN  IF Len(keywords) > 0 /\ keyword_match_count(text, keywords) = 0
        THEN Return(FALSE)
        ELSE IF category_filter # EmptyStr /\ category # category_filter
        THEN Return(FALSE)
        ELSE IF posted_dt.raised # "none" THEN posted_dt
        ELSE IF d_old.raised # "none" THEN d_old
        ELSE IF d_old.value > max_days_old
        THEN Return(FALSE)
        ELSE Return(TRUE)

---------------------------------------------------------------------------
(* Inputs: the listings the API may return and the keyword lists in force. *)
(* A text is written as its code points, with the text in the comment      *)

\* posted at StartNow, naive timestamp (taken as UTC)
JobAiEngineer ==
    [title |-> Str(<<65, 73, 32, 69, 110, 103, 105, 110, 101, 101, 114>>),
     company_name |-> Str(<<65, 99, 109, 101>>),
     category |-> Str(<<83, 111, 102, 116, 119, 97, 114, 101, 32, 68, 101, 118, 101, 108, 111, 112, 109, 101, 110, 116>>),
     publication_date |-> Str(<<50, 48, 50, 52, 45, 48, 51, 45, 51, 49, 84, 49, 50, 58, 48, 48, 58, 48, 48>>),
     salary |-> Str(<<36, 49, 48, 48, 107>>),
     description |-> Str(<<66, 117, 105, 108, 100, 32, 77, 76>>),
     url |-> Str(<<117, 49>>)]

\* posted at StartNow, written with a +02:00 offset; the salary is a number
JobAiResearcher ==
    [title |-> Str(<<65, 73, 32, 82, 101, 115, 101, 97, 114, 99, 104, 101, 114>>),
     company_name |-> Str(<<68, 101, 101, 112>>),
     category |-> Str(<<83, 111, 102, 116, 119, 97, 114, 101, 32, 68, 101, 118, 101, 108, 111, 112, 109, 101, 110, 116>>),
     publication_date |-> Str(<<50, 48, 50, 52, 45, 48, 51, 45, 51, 49, 84, 49, 52, 58, 48, 48, 58, 48, 48, 43, 48, 50, 58, 48, 48>>),
     salary |-> Num(<<57, 48, 48, 48, 48>>),
     description |-> Str(<<76, 97, 98, 115>>),
     url |-> Str(<<117, 50>>)]

\* posted at StartNow, written with Z; the salary is a carriage return and
\* a space
JobDataAnalyst ==
    [title |-> Str(<<68, 97, 116, 97, 32, 65, 110, 97, 108, 121, 115, 116>>),
     company_name |-> Str(<<66, 111, 108, 116>>),
     category |-> Str(<<68, 97, 116, 97>>),
     publication_date |-> Str(<<50, 48, 50, 52, 45, 48, 51, 45, 51, 49, 84, 49, 50, 58, 48, 48, 58, 48, 48, 90>>),
     salary |-> Str(<<13, 32>>),
     description |-> Str(<<80, 121, 116, 104, 111, 110, 32, 77, 76>>),
     url |-> Str(<<117, 51>>)]

\* posted exactly 7 days before StartNow, empty salary, matches no default
\* keyword
JobChef ==
    [title |-> Str(<<67, 104, 101, 102>>),
     company_name |-> Str(<<67, 97, 102, 101>>),
     category |-> Str(<<70, 111, 111, 100>>),
     publication_date |-> Str(<<50, 48, 50, 52, 45, 48, 51, 45, 50, 52, 84, 49, 50, 58, 48, 48, 58, 48, 48>>),
     salary |-> Str(<<>>),
     description |-> Str(<<67, 111, 111, 107>>),
     url |-> Str(<<117, 52>>)]

\* dated half an hour after StartNow
JobFuture ==
    [title |-> Str(<<68, 97, 116, 97, 32, 69, 110, 103, 105, 110, 101, 101, 114>>),
     company_name |-> Str(<<69, 99, 104, 111>>),
     category |-> Str(<<68, 97, 116, 97>>),
     publication_date |-> Str(<<50, 48, 50, 52, 45, 48, 51, 45, 51, 49, 84, 49, 50, 58, 51, 48, 58, 48, 48>>),
     salary |-> Str(<<36, 49, 50, 48, 107>>),
     description |-> Str(<<80, 121, 116, 104, 111, 110, 32, 69, 84, 76>>),
     url |-> Str(<<117, 53>>)]

\* posted 30 days 23:59:59 before StartNow, salary null
JobEdge ==
    [title |-> Str(<<80, 121, 116, 104, 111, 110, 32, 68, 101, 118>>),
     company_name |-> Str(<<70, 111, 120>>),
     category |-> Str(<<83, 111, 102, 116, 119, 97, 114, 101, 32, 68, 101, 118, 101, 108, 111, 112, 109, 101, 110, 116>>),
     publication_date |-> Str(<<50, 48, 50, 52, 45, 48, 50, 45, 50, 57, 84, 49, 50, 58, 48, 48, 58, 48, 49>>),
     salary |-> None,
     description |-> Str(<<65, 73, 32, 116, 111, 111, 108, 115>>),
     url |-> Str(<<117, 54>>)]

\* no publication_date key, no salary key
JobNoDate ==
    [title |-> Str(<<65, 73, 32, 73, 110, 116, 101, 114, 110>>),
     company_name |-> Str(<<71, 105, 103>>),
     category |-> Str(<<83, 111, 102, 116, 119, 97, 114, 101, 32, 68, 101, 118, 101, 108, 111, 112, 109, 101, 110, 116>>),
     description |-> Str(<<68, 97, 116, 97>>),
     url |-> Str(<<117, 55>>)]

\* the publication date is the number 20240331
JobNumericDate ==
    [title |-> Str(<<68, 97, 116, 97, 32, 67, 108, 101, 114, 107>>),
     company_name |-> Str(<<72, 117, 98>>),
     category |-> Str(<<68, 97, 116, 97>>),
     publication_date |-> Num(<<50, 48, 50, 52, 48, 51, 51, 49>>),
     salary |-> Str(<<36, 53, 48, 107>>),
     description |-> Str(<<70, 105, 108, 101, 115>>),
     url |-> Str(<<117, 56>>)]

\* dated an hour before 0001-01-01T00:00:00 UTC
JobBeforeYearOne ==
    [title |-> Str(<<80, 121, 116, 104, 111, 110, 32, 71, 117, 114, 117>>),
     company_name |-> Str(<<73, 111, 110>>),
     category |-> Str(<<83, 111, 102, 116, 119, 97, 114, 101, 32, 68, 101, 118, 101, 108, 111, 112, 109, 101, 110, 116>>),
     publication_date |-> Str(<<48, 48, 48, 49, 45, 48, 49, 45, 48, 49, 84, 48, 48, 58, 48, 48, 58, 48, 48, 43, 48, 49, 58, 48, 48>>),
     salary |-> Str(<<36, 49>>),
     description |-> Str(<<79, 108, 100>>),
     url |-> Str(<<117, 57>>)]

JobPool == {JobAiEngineer, JobAiResearcher, JobDataAnalyst, JobChef, JobFuture,
            JobEdge, JobNoDate, JobNumericDate, JobBeforeYearOne}

\* the default keyword list: python, ai, data
KEYWORDS == <<<<112, 121, 116, 104, 111, 110>>, <<97, 105>>, <<100, 97, 116, 97>>>>

\* user_keywords: the default, or what the comma-separated answer yields:
\* "," yields the empty list, "ai, ai" a list with a duplicate,
\* "python, ai, data, ml" a list of four
KeywordChoices ==
    {KEYWORDS, <<>>, <<<<97, 105>>, <<97, 105>>>>,
     <<<<112, 121, 116, 104, 111, 110>>, <<97, 105>>, <<100, 97, 116, 97>>, <<109, 108>>>>}

CATEGORY_FILTER == EmptyStr

MAX_DAYS_OLD == 30

\* the clock when the script starts, in seconds since 1970-01-01T00:00:00Z:
\* 2024-03-31T12:00:00Z
StartNow ==
    (YmdToOrd(2024, 3, 31) - YmdToOrd(1970, 1, 1)) * SecondsPerDay + 12 * 3600

MaxJobs == 2

MaxTicks == 1

RECURSIVE SeqsUpTo(_, _)
SeqsUpTo(S, n) ==
    IF n = 0 THEN {<<>>}
    ELSE LET shorter == SeqsUpTo(S, n - 1)
         IN  shorter \cup {Append(q, x) : q \in shorter, x \in S}

---------------------------------------------------------------------------
(* list.sort(key=..., reverse=True): a stable sort, descending by key; it is *)
(* modelled by the permutation it applies: perm[k] is the position before    *)
(* the sort of the element that ends at position k                           *)

\* InsertDescending with position k put ahead of the positions of equal key,
\* as a sort ascending followed by a reversal leaves them
InsertAheadOfTies(p, k, keys) ==
    LET ahead == Cardinality({q \in 1..Len(p) : FloatLess(keys[k], keys[p[q]])})
    IN  SubSeq(p, 1, ahead) \o <<k>> \o SubSeq(p, ahead + 1, Len(p))

\* p carries the positions sorted so far; position k goes behind every
\* position whose key is not smaller, so equal keys keep their order
InsertDescending(p, k, keys) ==
    LET ahead == Cardinality({q \in 1..Len(p) : ~FloatLess(keys[p[q]], keys[k])})
    IN  SubSeq(p, 1, ahead) \o <<k>> \o SubSeq(p, ahead + 1, Len(p))

RECURSIVE SortedPrefix(_, _)
SortedPrefix(keys, n) ==
    IF n = 0 THEN <<>>
    ELSE InsertDescending(SortedPrefix(keys, n - 1), n, keys)

\* the permutation of a stable sort ascending by key (reverse=True left out)
SortPermutationAscending(keys) ==
    CHOOSE p \in [1..Len(keys) -> 1..Len(keys)] :
        \A a, b \in 1..Len(keys) :
            a < b => /\ p[a] # p[b]
                     /\ ~FloatLess(keys[p[b]], keys[p[a]])
                     /\ keys[p[a]] = keys[p[b]] => p[a] < p[b]

SortPermutation(keys) == SortedPrefix(keys, Len(keys))

Permute(list, perm) == [k \in 1..Len(list) |-> list[perm[k]]]

---------------------------------------------------------------------------
(* The script *)

NoCall == [fn |-> "none"]

Init ==
    /\ jobs_list \in SeqsUpTo(JobPool, MaxJobs)
    /\ user_keywords \in KeywordChoices
    /\ now = StartNow
    /\ pc = "loop"
    /\ idx = 1
    /\ filtered_jobs = <<>>
    /\ origin = <<>>
    /\ admitted = {}
    /\ unit = NoCall

\* the clock advances by a second; the script reads it in days_since only
Tick ==
    /\ pc # "aborted"
    /\ now < StartNow + MaxTicks
    /\ now' = now + 1
    /\ UNCHANGED <<jobs_list, user_keywords, pc, idx, filtered_jobs, origin,
                   admitted, unit>>

\* FilterStep with the result of passes_filters ignored: every job is scored
FilterStepScoringAll ==
    /\ pc = "loop"
    /\ idx <= Len(jobs_list)
    /\ LET passed == passes_filters(jobs_list[idx], user_keywords,
                                    CATEGORY_FILTER, MAX_DAYS_OLD, now)
       IN  IF passed.raised # "none"
           THEN /\ pc' = "aborted"
                /\ admitted' = admitted
           ELSE /\ pc' = "score"
                /\ admitted' = IF passed.value THEN admitted \cup {idx}
                               ELSE admitted
    /\ idx' = idx
    /\ UNCHANGED <<jobs_list, user_keywords, now, filtered_jobs, origin, unit>>

\* the head of the for loop and the test of the if: one call of
\* passes_filters, which reads the clock once; an exception ends the script
FilterStep ==
    /\ pc = "loop"
    /\ idx <= Len(jobs_list)
    /\ LET passed == passes_filters(jobs_list[idx], user_keywords,
                                    CATEGORY_FILTER, MAX_DAYS_OLD, now)
       IN  IF passed.raised # "none"
           THEN /\ pc' = "aborted"
                /\ admitted' = admitted
                /\ idx' = idx
           ELSE IF passed.value
           THEN /\ pc' = "score"
                /\ admitted' = admitted \cup {idx}
                /\ idx' = idx
           ELSE /\ pc' = "loop"
                /\ admitted' = admitted
                /\ idx' = idx + 1
    /\ UNCHANGED <<jobs_list, user_keywords, now, filtered_jobs, origin, unit>>

\* the dictionary the body of the if appends for `job`; clock is the value
\* the second call of days_since reads
ScoredListing(job, keywords, clock) ==
    LET title        == Get(job, "title", EmptyStr)
        company      == Get(job, "company_name", EmptyStr)
        category     == Get(job, "category", EmptyStr)
        pub_date_str == Get(job, "publication_date", EmptyStr)
        url          == Get(job, "url", EmptyStr)
        salary       == Get(job, "salary", EmptyStr)
        description  == Get(job, "description", EmptyStr)
        posted_dt    == parse_iso_date(pub_date_str)
        d_old        == days_since(posted_dt.value, clock)
        text         == Str(Format(title) \o <<32>> \o Format(description))
        match_count  == keyword_match_count(text, keywords)
        r            == recency_score(d_old.value)
        k            == keyword_score(match_count, Len(keywords))
        s            == salary_score(salary)
        score        == job_score(r, k, s)
    IN  IF posted_dt.raised # "none" THEN posted_dt
        ELSE IF d_old.raised # "none" THEN d_old
        ELSE Return([title               |-> title,
                     company             |-> company,
                     category            |-> category,
                     publication_date    |-> pub_date_str,
                     days_old            |-> d_old.value,
                     salary              |-> salary,
                     keyword_match_count |-> match_count,
                     recency_score       |-> r,
                     keyword_score       |-> k,
                     salary_score        |-> s,
                     job_score           |-> score,
                     url                 |-> url])

\* the body of the if: score the admitted job and append it
ScoreStep ==
    /\ pc = "score"
    /\ LET scored == ScoredListing(jobs_list[idx], user_keywords, now)
       IN  IF scored.raised # "none"
           THEN /\ pc' = "aborted"
                /\ UNCHANGED <<filtered_jobs, origin, idx>>
           ELSE /\ filtered_jobs' = Append(filtered_jobs, scored.value)
                /\ origin' = Append(origin, idx)
                /\ idx' = idx + 1
                /\ pc' = "loop"
    /\ UNCHANGED <<jobs_list, user_keywords, now, admitted, unit>>

\* the loop is over: sort by job_score descending
SortStep ==
    /\ pc = "loop"
    /\ idx > Len(jobs_list)
    /\ LET keys == [k \in 1..Len(filtered_jobs) |-> filtered_jobs[k].job_score]
           perm == SortPermutation(keys)
       IN  /\ filtered_jobs' = Permute(filtered_jobs, perm)
           /\ origin' = Permute(origin, perm)
    /\ pc' = "done"
    /\ UNCHANGED <<jobs_list, user_keywords, now, idx, admitted, unit>>

Next == Tick \/ FilterStep \/ ScoreStep \/ SortStep

Spec == Init /\ [][Next]_vars

---------------------------------------------------------------------------
(* Direct calls of the helper functions, as a unit test makes them: the     *)
(* arguments are drawn from the sets below and the call and its outcome are *)
(* kept in `unit`                                                           *)

MaxKeywords == 2

MaxDay == 16

\* ai, PYTHON, data and the Greek word sofias, whose last letter is a final
\* sigma
UnitKeywordLists ==
    SeqsUpTo({<<97, 105>>, <<80, 89, 84, 72, 79, 78>>, <<100, 97, 116, 97>>, <<963, 959, 966, 953, 945, 962>>}, MaxKeywords)

\* "Remote Python Role", "ai data AI", "Chef Cook", and capitals with accents
\* and a capital sigma at the end of a word: "ÉCOLE ΣΟΦΙΑΣ DATA"
UnitTexts ==
    {None, EmptyStr,
     Str(<<82, 101, 109, 111, 116, 101, 32, 80, 121, 116, 104, 111, 110, 32, 82, 111, 108, 101>>),
     Str(<<97, 105, 32, 100, 97, 116, 97, 32, 65, 73>>),
     Str(<<67, 104, 101, 102, 32, 67, 111, 111, 107>>),
     Str(<<201, 67, 79, 76, 69, 32, 931, 927, 934, 921, 913, 931, 32, 68, 65, 84, 65>>)}

\* publication dates that datetime.fromisoformat refuses, besides None and "":
\* "soon", month 13, February 30th, and an offset of one digit
DateSoon == Str(<<115, 111, 111, 110>>)

UnitDatesRefused ==
    {DateSoon,
     Str(<<50, 48, 50, 52, 45, 49, 51, 45, 48, 49, 84, 48, 48, 58, 48, 48, 58, 48, 48>>),
     Str(<<50, 48, 50, 52, 45, 48, 50, 45, 51, 48, 84, 48, 48, 58, 48, 48, 58, 48, 48>>),
     Str(<<50, 48, 50, 52, 45, 48, 51, 45, 48, 49, 84, 49, 50, 58, 48, 48, 58, 48, 48, 43, 50>>)}

\* other ways to write a date that datetime.fromisoformat accepts: the date
\* alone, a space for T, a fraction, the basic format, a week date, offsets
\* without colon or with seconds, an offset of 60 minutes, and the last
\* second of the year 9999 written an hour behind UTC
UnitDatesAccepted ==
    {Str(<<50, 48, 50, 52, 45, 48, 51, 45, 51, 49>>),
     Str(<<50, 48, 50, 52, 45, 48, 51, 45, 48, 49, 32, 49, 50, 58, 48, 48, 58, 48, 48>>),
     Str(<<50, 48, 50, 52, 45, 48, 51, 45, 51, 49, 84, 49, 50, 58, 48, 48, 58, 48, 48, 46, 49, 50, 51, 52, 53, 54>>),
     Str(<<50, 48, 50, 52, 48, 51, 51, 49, 84, 49, 50, 48, 48, 48, 48>>),
     Str(<<50, 48, 50, 52, 45, 87, 49, 51, 45, 55>>),
     Str(<<50, 48, 50, 52, 45, 48, 51, 45, 51, 49, 84, 49, 50>>),
     Str(<<50, 48, 50, 52, 45, 48, 51, 45, 51, 49, 84, 49, 50, 58, 48, 48, 58, 48, 48, 43, 48, 50, 48, 48>>),
     Str(<<50, 48, 50, 52, 45, 48, 51, 45, 51, 49, 84, 49, 50, 58, 48, 48, 58, 48, 48, 43, 48, 50, 58, 48, 48, 58, 51, 48>>),
     Str(<<50, 48, 50, 52, 45, 48, 51, 45, 51, 49, 84, 49, 50, 58, 48, 48, 58, 48, 48, 43, 48, 48, 58, 54, 48>>),
     Str(<<50, 48, 50, 52, 45, 48, 51, 45, 51, 49, 84, 49, 50, 58, 48, 48, 58, 48, 48, 46, 53, 45, 48, 48, 58, 48, 48, 58, 48, 48, 46, 53>>),
     Str(<<57, 57, 57, 57, 45, 49, 50, 45, 51, 49, 84, 50, 51, 58, 53, 57, 58, 53, 57, 45, 48, 49, 58, 48, 48>>)}

UnitDates ==
    {None, EmptyStr} \cup UnitDatesRefused \cup UnitDatesAccepted
        \cup {Get(j, "publication_date", EmptyStr) : j \in JobPool}

UnitJobs ==
    JobPool \cup {[JobAiEngineer EXCEPT !.publication_date = None],
                  [JobDataAnalyst EXCEPT !.publication_date = EmptyStr],
                  [JobAiEngineer EXCEPT !.publication_date = DateSoon],
                  [JobChef EXCEPT !.publication_date = DateSoon]}

\* "Data" and "data"
UnitCategoryFilters == {EmptyStr, Str(<<68, 97, 116, 97>>), Str(<<100, 97, 116, 97>>)}

UnitMaxDays == {0, 7, MAX_DAYS_OLD, NO_DATE_DAYS - 1, NO_DATE_DAYS, NO_DATE_DAYS + 1}

UnitClocks == {StartNow, StartNow + 1, StartNow + SecondsPerDay}

\* null, "", blanks of several kinds (space, carriage return, form feed,
\* no-break space, em space), a text, and numbers
UnitSalaries ==
    {None, EmptyStr, Str(<<32>>), Str(<<13>>), Str(<<12, 160, 8195>>),
     Str(<<36, 49, 48, 48, 107>>), Str(<<32, 49, 32>>), Num(<<57, 48, 48, 48, 48>>), Num(<<48>>)}

InitUnit ==
    /\ jobs_list = <<>>
    /\ user_keywords = KEYWORDS
    /\ now \in UnitClocks
    /\ pc = "unit"
    /\ idx = 1
    /\ filtered_jobs = <<>>
    /\ origin = <<>>
    /\ admitted = {}
    /\ unit = NoCall

\* a call is made from the idle harness; the pipeline state is not touched
UnitFrame ==
    /\ unit = NoCall
    /\ UNCHANGED <<jobs_list, user_keywords, now, pc, idx, filtered_jobs, origin,
                admitted>>

CallParseIsoDate ==
    /\ UnitFrame
    /\ \E date_str \in UnitDates :
           unit' = [fn |-> "parse_iso_date", date_str |-> date_str,
                    result |-> parse_iso_date(date_str)]

\* days_since is called on what parse_iso_date returned
CallDaysSince ==
    /\ UnitFrame
    /\ \E date_str \in UnitDates :
           LET posted_dt == parse_iso_date(date_str)
           IN  /\ posted_dt.raised = "none"
               /\ unit' = [fn |-> "days_since", posted_dt |-> posted_dt.value,
                           clock |-> now,
                           result |-> days_since(posted_dt.value, now)]

CallKeywordMatchCount ==
    /\ UnitFrame
    /\ \E text \in UnitTexts, keywords \in UnitKeywordLists :
           unit' = [fn |-> "keyword_match_count", text |-> text,
                    keywords |-> keywords,
                    result |-> keyword_match_count(text, keywords)]

CallRecencyScore ==
    /\ UnitFrame
    /\ \E days_old \in (-MaxDay)..MaxDay :
           unit' = [fn |-> "recency_score", days_old |-> days_old,
                    result |-> recency_score(days_old)]

CallKeywordScore ==
    /\ UnitFrame
    /\ \E match_count \in 0..(MaxKeywords + 2),
          total_keywords \in 0..(MaxKeywords + 2) :
           unit' = [fn |-> "keyword_score", match_count |-> match_count,
                    total_keywords |-> total_keywords,
                    result |-> keyword_score(match_count, total_keywords)]

CallSalaryScore ==
    /\ UnitFrame
    /\ \E salary_value \in UnitSalaries :
           unit' = [fn |-> "salary_score", salary_value |-> salary_value,
                    result |-> salary_score(salary_value)]

\* job_score is called on sub-scores the three scoring functions return
CallJobScore ==
    /\ UnitFrame
    /\ \E days_old \in {-1, 0, 3, 7, 8},
          match_count \in 0..(MaxKeywords + 2),
          total_keywords \in 0..(MaxKeywords + 2),
          salary_value \in {None, Str(<<36, 49, 48, 48, 107>>)} :
           /\ match_count <= total_keywords
           /\ LET r == recency_score(days_old)
                  k == keyword_score(match_count, total_keywords)
                  s == salary_score(salary_value)
              IN  unit' = [fn |-> "job_score", r |-> r, k |-> k, s |-> s,
                           result |-> job_score(r, k, s)]

CallPassesFilters ==
    /\ UnitFrame
    /\ \E job \in UnitJobs, keywords \in UnitKeywordLists,
          category_filter \in UnitCategoryFilters, max_days_old \in UnitMaxDays :
           unit' = [fn |-> "passes_filters", job |-> job, keywords |-> keywords,
                    category_filter |-> category_filter,
                    max_days_old |-> max_days_old, clock |-> now,
                    result |-> passes_filters(job, keywords, category_filter,
                                              max_days_old, now)]

NextUnit ==
    \/ CallParseIsoDate
    \/ CallDaysSince
    \/ CallKeywordMatchCount
    \/ CallRecencyScore
    \/ CallKeywordScore
    \/ CallSalaryScore
    \/ CallJobScore
    \/ CallPassesFilters

SpecUnit == InitUnit /\ [][NextUnit]_vars

---------------------------------------------------------------------------
(* Properties *)

Positions == 1..Len(filtered_jobs)

SumOfWeights == FloatAdd(FloatAdd(WEIGHT_RECENCY, WEIGHT_KEYWORDS), WEIGHT_SALARY)

InUnitInterval(x) == FloatLE(Zero, x) /\ FloatLE(x, One)

\* C1: when the script has finished, the output is ordered by job_score
\* descending: each entry's job_score is at least that of the entry after it.
C1_SortedDescending ==
    pc = "done" =>
        \A k \in Positions :
            k < Len(filtered_jobs) =>
                FloatLE(filtered_jobs[k + 1].job_score, filtered_jobs[k].job_score)

\* the sort had to move an entry: the first output entry has a strictly
\* greater score than the second and came later in the input
C1_Witness ==
    /\ pc = "done"
    /\ Len(filtered_jobs) >= 2
    /\ FloatLess(filtered_jobs[2].job_score, filtered_jobs[1].job_score)
    /\ origin[1] > origin[2]

\* the checks of passes_filters, stated on the arguments of a call
KeywordCheck(job, keywords) ==
    \/ keywords = <<>>
    \/ \E k \in 1..Len(keywords) :
           Contains(Lower(Get(job, "title", EmptyStr).v \o <<32>>
                              \o Get(job, "description", EmptyStr).v),
                    Lower(keywords[k]))

CategoryCheck(job, category_filter) ==
    \/ category_filter = EmptyStr
    \/ Get(job, "category", EmptyStr) = category_filter

\* the listing has an age, and it is at most max_days_old
AgeCheck(job, max_days_old, clock) ==
    LET posted_dt == parse_iso_date(Get(job, "publication_date", EmptyStr))
        d_old     == days_since(posted_dt.value, clock)
    IN  /\ posted_dt.raised = "none"
        /\ d_old.raised = "none"
        /\ d_old.value <= max_days_old

\* C2: passes_filters returns True exactly when the keyword check, the
\* category check and the age check all hold; and it returns False whenever
\* the keyword list is non-empty and no keyword occurs in the text.
C2_PassesFiltersIffAllChecks ==
    unit.fn = "passes_filters" =>
        /\ (unit.result = Return(TRUE))
               = (/\ KeywordCheck(unit.job, unit.keywords)
                  /\ CategoryCheck(unit.job, unit.category_filter)
                  /\ AgeCheck(unit.job, unit.max_days_old, unit.clock))
        /\ (unit.keywords # <<>> /\ ~KeywordCheck(unit.job, unit.keywords))
               => unit.result = Return(FALSE)

\* a call that is refused by the keyword check alone: the category and the
\* age would let the listing pass
C2_Witness ==
    /\ unit.fn = "passes_filters"
    /\ unit.keywords # <<>>
    /\ ~KeywordCheck(unit.job, unit.keywords)
    /\ unit.category_filter # EmptyStr
    /\ CategoryCheck(unit.job, unit.category_filter)
    /\ AgeCheck(unit.job, unit.max_days_old, unit.clock)
    /\ unit.result = Return(FALSE)

\* C3: the sort is stable: of two output entries with equal job_score the
\* earlier one comes from the earlier input position.
C3_StableSort ==
    pc = "done" =>
        \A a, b \in Positions :
            (a < b /\ filtered_jobs[a].job_score = filtered_jobs[b].job_score)
                => origin[a] < origin[b]

\* two different listings with equal job_score are in the finished output
C3_Witness ==
    /\ pc = "done"
    /\ \E a, b \in Positions :
           /\ a < b
           /\ filtered_jobs[a].job_score = filtered_jobs[b].job_score
           /\ filtered_jobs[a].url # filtered_jobs[b].url

\* C4: every output entry has its three sub-scores in [0,1] and its job_score
\* in [0, WEIGHT_RECENCY + WEIGHT_KEYWORDS + WEIGHT_SALARY].
C4_ScoresInRange ==
    \A k \in Positions :
        /\ InUnitInterval(filtered_jobs[k].recency_score)
        /\ InUnitInterval(filtered_jobs[k].keyword_score)
        /\ InUnitInterval(filtered_jobs[k].salary_score)
        /\ FloatLE(Zero, filtered_jobs[k].job_score)
        /\ FloatLE(filtered_jobs[k].job_score, SumOfWeights)

\* C5: between iterations and at the end, the output holds exactly one entry
\* for each listing passes_filters admitted and none for any other: as many
\* entries as admitted listings, each made from a different admitted listing.
C5_OneEntryPerAdmitted ==
    pc \in {"loop", "done"} =>
        /\ Len(filtered_jobs) = Cardinality(admitted)
        /\ Len(origin) = Len(filtered_jobs)
        /\ {origin[k] : k \in Positions} = admitted
        /\ \A k \in Positions :
               /\ filtered_jobs[k].url = Get(jobs_list[origin[k]], "url", EmptyStr)
               /\ filtered_jobs[k].title = Get(jobs_list[origin[k]], "title", EmptyStr)

\* a finished run over two listings that admitted one and rejected the
\* other, the rejected one first
C5_Witness ==
    /\ pc = "done"
    /\ Len(jobs_list) = 2
    /\ admitted = {2}
    /\ Len(filtered_jobs) = 1

\* the publication dates that are missing, null, empty, or a text
\* datetime.fromisoformat refuses
DatelessValues ==
    {None, EmptyStr} \cup UnitDatesRefused

Dateless(job) == Get(job, "publication_date", EmptyStr) \in DatelessValues

\* C6: a missing, empty or unparseable publication date does not raise:
\* parse_iso_date returns None, days_since(None) is 9999, and passes_filters
\* rejects such a listing for every max_days_old below 9999 and admits it
\* exactly when max_days_old >= 9999 and the keyword and category checks pass.
C6_DatelessIsMaximallyOld ==
    /\ (unit.fn = "parse_iso_date" /\ unit.date_str \in DatelessValues)
           => unit.result = Return(NoDateTime)
    /\ (unit.fn = "days_since" /\ unit.posted_dt = NoDateTime)
           => unit.result = Return(9999)
    /\ (unit.fn = "passes_filters" /\ Dateless(unit.job))
           => /\ unit.result.raised = "none"
              /\ unit.max_days_old < 9999 => unit.result = Return(FALSE)
              /\ unit.result = Return(/\ unit.max_days_old >= 9999
                                      /\ KeywordCheck(unit.job, unit.keywords)
                                      /\ CategoryCheck(unit.job,
                                                       unit.category_filter))

\* a listing whose date does not parse is admitted under max_days_old = 9999
C6_Witness ==
    /\ unit.fn = "passes_filters"
    /\ Get(unit.job, "publication_date", EmptyStr) = DateSoon
    /\ unit.max_days_old = 9999
    /\ unit.result = Return(TRUE)

\* C7: recency_score(d) is 0 for d > 7 and max(0, 1 - d/14) for d <= 7; it is
\* 1.0 at 0, 0.5 at 7, 0 at 8 and at 14, and over d >= 0 it never increases.
C7_RecencyScore ==
    unit.fn = "recency_score" =>
        LET d == unit.days_old
            r == unit.result
        IN  /\ d > 7 => r = Zero
            /\ d <= 7 => r = FloatMax(Zero, FloatSub(One, TrueDiv(d, 14)))
            /\ d = 0 => r = FloatFromInt(1)
            /\ d = 7 => r = TrueDiv(1, 2)
            /\ d \in {8, 14} => r = FloatFromInt(0)
            /\ d >= 0 => \A e \in 0..d : FloatLE(r, recency_score(e))

\* recency_score was called at the cutoff day
C7_Witness ==
    /\ unit.fn = "recency_score"
    /\ unit.days_old = 7
    /\ unit.result = TrueDiv(1, 2)

\* C8: keyword_match_count is between 0 and len(keywords), so the keyword
\* score made of it is in [0,1]; keyword_score(0, N) = 0 for N > 0 and
\* keyword_score(N, 0) = 0 for every N.
C8_KeywordCountAndScore ==
    /\ unit.fn = "keyword_match_count"
           => /\ unit.result \in 0..Len(unit.keywords)
              /\ InUnitInterval(keyword_score(unit.result, Len(unit.keywords)))
    /\ unit.fn = "keyword_score"
           => /\ (unit.match_count = 0 /\ unit.total_keywords > 0)
                     => unit.result = Zero
              /\ unit.total_keywords = 0 => unit.result = Zero
              /\ unit.match_count <= unit.total_keywords
                     => InUnitInterval(unit.result)

\* a duplicated keyword that occurs twice in the text: both copies count
C8_Witness ==
    /\ unit.fn = "keyword_match_count"
    /\ Len(unit.keywords) = 2
    /\ unit.keywords[1] = unit.keywords[2]
    /\ unit.text.t = "str"
    /\ Occurrences(Lower(unit.text.v), Lower(unit.keywords[1])) = 2
    /\ unit.result = 2

\* C10: every output entry records a days_old of at most MAX_DAYS_OLD, the
\* value passes_filters admitted it on, also when the clock advances.
C10_StoredAgeWithinLimit ==
    \A k \in Positions : filtered_jobs[k].days_old <= MAX_DAYS_OLD

=============================================================================
